---- MODULE Spec2Model ----
(***************************************************************************)
(* Epic Events CRM: the service layer (UserService, ClientService,         *)
(* ContractService, EventService), the controllers that call it and the    *)
(* two session mechanisms, as a state machine over the four tables.        *)
(*                                                                         *)
(* A table is a function from the ids of its rows to the rows.  Every      *)
(* service method is one action: its guard and early raises come from the  *)
(* method's conditions, its effect from its assignments and commit, and    *)
(* the flush that commit performs (constraints, the nulling of children    *)
(* of a deleted parent) is part of the same action.                        *)
(***************************************************************************)
EXTENDS Integers, FiniteSets, Sequences, TLC

VARIABLES users, clients, contracts, events, nextId, session,
          token, token_expired, current_user, auth_db, last

dbVars == <<users, clients, contracts, events, nextId, session>>
authVars == <<token, token_expired, current_user, auth_db>>
vars == <<users, clients, contracts, events, nextId, session,
          token, token_expired, current_user, auth_db, last>>

(***************************************************************************)
(* Bounds of the model.                                                    *)
(***************************************************************************)
MaxUsers == 3
MaxClients == 1
MaxClientsUnique == 2
MaxContracts == 1
MaxEvents == 1
MaxAmount == 2
MaxEmails == 2

UserIds == 1..MaxUsers
ClientIds == 1..MaxClients
ContractIds == 1..MaxContracts
EventIds == 1..MaxEvents

\* models/user.py DepartmentType
COMMERCIAL == "commercial"
SUPPORT == "support"
GESTION == "gestion"
DepartmentType == {COMMERCIAL, SUPPORT, GESTION}

\* A nullable integer column holding no value (Python None).
NULL == 0

\* The outcomes of an operation.
OK == "ok"
ValueError == "ValueError"
IntegrityError == "IntegrityError"
Denied == "denied"
NotFound == "not_found"

Phones == {"p1", "p2"}
Emails == 1..MaxEmails
EmployeeNumbers == 1..MaxEmails
Amounts == 0..MaxAmount
Passwords == {"pw1", "pw2"}
Salts == {"s1", "s2"}

\* core/security.py: bcrypt.hashpw keeps the salt in the hash next to the
\* digest of the salt and the password.
hashpw(password, salt) == [salt |-> salt, digest |-> <<salt, password>>]

\* hash_password, with the salt that bcrypt.gensalt drew.
hash_password(password, salt) == hashpw(password, salt)

\* verify_password: bcrypt.checkpw hashes the plain password again with the
\* salt of the stored hash and compares.
verify_password(plain_password, hashed_password) ==
    hashpw(plain_password, hashed_password.salt) = hashed_password

\* The password column of no User object.
NoHash == [salt |-> "none", digest |-> <<>>]

\* The result of the last operation: which one, on which row, how it ended.
Result(op, id, result) == [op |-> op, id |-> id, result |-> result]

\* The result of an operation that an actor asked for.
ActorResult(op, id, result, actor) ==
    [op |-> op, id |-> id, result |-> result, actor |-> actor]

\* No User object (Python None where a User is expected).
NoUser == [id |-> NULL, department |-> "none", password |-> NoHash]

\* A loaded User object: the id, and the department and the password hash
\* it was loaded with.
Actor(us, user_id) ==
    [id |-> user_id, department |-> us[user_id].department,
     password |-> us[user_id].password]

Remove(table, id) == [i \in DOMAIN table \ {id} |-> table[i]]

\* The value passed for a key of a keyword map, or the stored one.
Get(kwargs, key, stored) == IF key \in DOMAIN kwargs THEN kwargs[key] ELSE stored

GestionCount(us) == Cardinality({u \in DOMAIN us : us[u].department = GESTION})

(***************************************************************************)
(* The database session that the services of the application share         *)
(* (EpicEvents.__init__ gives one SessionLocal() to the four services).    *)
(***************************************************************************)
\* The session holds no change: it has just been committed or rolled back.
Clean == "clean"

\* The session still holds what an operation that raised had changed, added
\* or deleted, or the transaction of a flush that failed.
Dirty == "dirty"

\* The exception that log_success let through.
TelemetryError == "TelemetryError"

\* The except clause of each service method.
handler ==
    [create_user |-> "Exception", update_user |-> "Exception",
     delete_user |-> "Exception",
     create_client |-> "Exception", update_client |-> "Exception",
     reassign_client |-> "Exception",
     create_contract |-> "SQLAlchemyError", update_contract |-> "SQLAlchemyError",
     delete_contract |-> "SQLAlchemyError",
     create_event |-> "Exception", update_event |-> "SQLAlchemyError",
     delete_event |-> "SQLAlchemyError", assign_event |-> "Exception"]

\* Does the except clause take the error?  IntegrityError is an
\* SQLAlchemyError, ValueError is not.
catches(except_clause, error) ==
    except_clause = "Exception" \/ error = IntegrityError

\* Had the method changed the objects of the session when the error was
\* raised?  The checks that raise ValueError come before the assignments,
\* db.add and db.delete; IntegrityError comes from the flush, after them.
pending_at(op, error) == error = IntegrityError

\* The session after the service method op ended with result: commit and
\* rollback empty it, an exception that the except clause does not take
\* leaves it as the method made it.  A controller that refuses does not
\* call the service.
session_after(op, result) ==
    IF result \in {Denied, NotFound} THEN session
    ELSE IF result \in {OK, TelemetryError} THEN Clean
    ELSE IF catches(handler[op], result) THEN Clean
    ELSE IF pending_at(op, result) THEN Dirty
    ELSE session

Init ==
    /\ users = <<>>
    /\ clients = <<>>
    /\ contracts = <<>>
    /\ events = <<>>
    /\ nextId = [user |-> 1, client |-> 1, contract |-> 1, event |-> 1]
    /\ session = Clean
    /\ token = NULL
    /\ token_expired = FALSE
    /\ current_user = NoUser
    /\ auth_db = NoUser
    /\ last = Result("init", NULL, OK)

(***************************************************************************)
(* UserService                                                             *)
(***************************************************************************)
\* The flush of a users row with unique=True on email only.
users_unique_fails_email(user_id, row) ==
    \E u \in DOMAIN users \ {user_id} : users[u].email = row.email

\* unique=True on users.email and users.employee_number: the flush of the
\* row of user_id (NULL for a new row) fails if another row holds its email
\* or its employee number.
users_unique_fails(user_id, row) ==
    \E u \in DOMAIN users \ {user_id} :
        \/ users[u].email = row.email
        \/ users[u].employee_number = row.employee_number

UserService_create_user(email, employee_number, department, password, salt) ==
    /\ nextId.user <= MaxUsers
    /\ IF users_unique_fails(NULL, [email |-> email,
                                    employee_number |-> employee_number])
       THEN /\ last' = Result("create_user", NULL, IntegrityError)
            /\ UNCHANGED <<users, nextId>>
       ELSE /\ users' = users @@ (nextId.user :>
                    [email |-> email, employee_number |-> employee_number,
                     department |-> department,
                     password |-> hash_password(password, salt)])
            /\ nextId' = [nextId EXCEPT !.user = @ + 1]
            /\ last' = Result("create_user", nextId.user, OK)
    /\ UNCHANGED <<clients, contracts, events, authVars>>
    /\ session' = session_after("create_user", last'.result)

\* create_user called with an email and an employee number that no row
\* holds: those of the id the new row gets.
create_user(department, password, salt) ==
    UserService_create_user(nextId.user, nextId.user, department, password, salt)

\* The row of a user after the assignments of update_user: user_data is the
\* keyword map, a record holding the keys that were passed, and salt is the
\* salt drawn if a password is hashed.
updated_user(user, user_data, salt) ==
    [user EXCEPT !.email = Get(user_data, "email", @),
                 !.employee_number = Get(user_data, "employee_number", @),
                 !.department = Get(user_data, "department", @),
                 !.password = IF "password" \in DOMAIN user_data
                                 /\ user_data.password # ""
                              THEN hash_password(user_data.password, salt) ELSE @]

update_user(user_id, user_data, salt) ==
    /\ IF user_id \notin DOMAIN users
       THEN /\ last' = Result("update_user", user_id, ValueError)
            /\ UNCHANGED users
       ELSE IF users_unique_fails(user_id, updated_user(users[user_id], user_data, salt))
       THEN /\ last' = Result("update_user", user_id, IntegrityError)
            /\ UNCHANGED users
       ELSE /\ users' = [users EXCEPT ![user_id] = updated_user(@, user_data, salt)]
            /\ last' = Result("update_user", user_id, OK)
    /\ UNCHANGED <<clients, contracts, events, nextId, authVars>>
    /\ session' = session_after("update_user", last'.result)

\* A flush that lets the rows of User.contracts lose their sales contact.
delete_user_flush_unchecked(user_id) == FALSE

\* The flush of db.delete(user): the rows of User.contracts would get a NULL
\* sales_contact_id, which the column (nullable=False) refuses.
delete_user_flush_fails(user_id) ==
    \E c \in DOMAIN contracts : contracts[c].sales_contact_id = user_id

\* delete_user with the count of the GESTION users compared with < 1.
delete_user_outcome_count(user_id) ==
    IF user_id \notin DOMAIN users THEN ValueError
    ELSE IF users[user_id].department = GESTION /\ GestionCount(users) < 1
    THEN ValueError
    ELSE IF \E c \in DOMAIN clients : clients[c].sales_contact_id = user_id
    THEN ValueError
    ELSE IF \E e \in DOMAIN events : events[e].support_contact_id = user_id
    THEN ValueError
    ELSE IF delete_user_flush_fails(user_id) THEN IntegrityError
    ELSE OK

\* delete_user without the query of the events the user supports.
delete_user_outcome_events(user_id) ==
    IF user_id \notin DOMAIN users THEN ValueError
    ELSE IF users[user_id].department = GESTION /\ GestionCount(users) <= 1
    THEN ValueError
    ELSE IF \E c \in DOMAIN clients : clients[c].sales_contact_id = user_id
    THEN ValueError
    ELSE IF delete_user_flush_fails(user_id) THEN IntegrityError
    ELSE OK

\* delete_user without the count of the GESTION users.
delete_user_outcome_uncounted(user_id) ==
    IF user_id \notin DOMAIN users THEN ValueError
    ELSE IF \E c \in DOMAIN clients : clients[c].sales_contact_id = user_id
    THEN ValueError
    ELSE IF \E e \in DOMAIN events : events[e].support_contact_id = user_id
    THEN ValueError
    ELSE IF delete_user_flush_fails(user_id) THEN IntegrityError
    ELSE OK

delete_user_outcome(user_id) ==
    IF user_id \notin DOMAIN users THEN ValueError
    ELSE IF users[user_id].department = GESTION /\ GestionCount(users) <= 1
    THEN ValueError
    ELSE IF \E c \in DOMAIN clients : clients[c].sales_contact_id = user_id
    THEN ValueError
    ELSE IF \E e \in DOMAIN events : events[e].support_contact_id = user_id
    THEN ValueError
    ELSE IF delete_user_flush_fails(user_id) THEN IntegrityError
    ELSE OK

\* The result of delete_user, with the department of the user it was
\* called for.
DeleteResult(user_id, result) ==
    [op |-> "delete_user", id |-> user_id, result |-> result,
     department |-> IF user_id \in DOMAIN users
                    THEN users[user_id].department ELSE "none"]

delete_user(user_id) ==
    /\ last' = DeleteResult(user_id, delete_user_outcome(user_id))
    /\ users' = IF delete_user_outcome(user_id) = OK
                THEN Remove(users, user_id) ELSE users
    /\ UNCHANGED <<clients, contracts, events, nextId, authVars>>
    /\ session' = session_after("delete_user", last'.result)

(***************************************************************************)
(* ClientService                                                           *)
(***************************************************************************)
\* unique=True on clients.email: the flush of the row of client_id (NULL for
\* a new row) fails if another row holds its email.
clients_unique_fails(client_id, email) ==
    \E c \in DOMAIN clients \ {client_id} : clients[c].email = email

\* log_success_raises: does the call of log_success, after the commit, let
\* an exception through?
ClientService_create_client(email, phone, sales_contact_id, log_success_raises) ==
    /\ nextId.client <= MaxClientsUnique
    /\ IF sales_contact_id \notin DOMAIN users
       THEN \* ForeignKey('users.id') refuses the insert; rollback
            /\ last' = Result("create_client", NULL, IntegrityError)
            /\ UNCHANGED <<clients, nextId>>
       ELSE IF clients_unique_fails(NULL, email)
       THEN /\ last' = Result("create_client", NULL, IntegrityError)
            /\ UNCHANGED <<clients, nextId>>
       ELSE /\ clients' = clients @@ (nextId.client :>
                    [email |-> email, phone |-> phone,
                     sales_contact_id |-> sales_contact_id])
            /\ nextId' = [nextId EXCEPT !.client = @ + 1]
            /\ last' = Result("create_client", nextId.client,
                              IF log_success_raises THEN TelemetryError ELSE OK)
    /\ UNCHANGED <<users, contracts, events, authVars>>
    /\ session' = session_after("create_client", last'.result)

\* create_client called with an email that no row holds, the one of the id
\* the new row gets, and with a telemetry sink that works.
create_client(phone, sales_contact_id) ==
    /\ nextId.client <= MaxClients
    /\ ClientService_create_client(nextId.client, phone, sales_contact_id, FALSE)

update_client(client_id, kwargs) ==
    /\ IF client_id \notin DOMAIN clients
       THEN /\ last' = Result("update_client", client_id, ValueError)
            /\ UNCHANGED clients
       ELSE IF clients_unique_fails(client_id,
                                    Get(kwargs, "email", clients[client_id].email))
       THEN /\ last' = Result("update_client", client_id, IntegrityError)
            /\ UNCHANGED clients
       ELSE /\ clients' = [clients EXCEPT ![client_id].email = Get(kwargs, "email", @),
                                          ![client_id].phone = Get(kwargs, "phone", @)]
            /\ last' = Result("update_client", client_id, OK)
    /\ UNCHANGED <<users, contracts, events, nextId, authVars>>
    /\ session' = session_after("update_client", last'.result)

reassign_client_outcome(client_id, new_commercial_id) ==
    IF client_id \notin DOMAIN clients THEN ValueError
    ELSE IF new_commercial_id \notin DOMAIN users THEN ValueError
    ELSE IF users[new_commercial_id].department # COMMERCIAL THEN ValueError
    ELSE OK

reassign_client(client_id, new_commercial_id) ==
    /\ last' = Result("reassign_client", client_id,
                      reassign_client_outcome(client_id, new_commercial_id))
    /\ clients' = IF reassign_client_outcome(client_id, new_commercial_id) = OK
                  THEN [clients EXCEPT ![client_id].sales_contact_id = new_commercial_id]
                  ELSE clients
    /\ UNCHANGED <<users, contracts, events, nextId, authVars>>
    /\ session' = session_after("reassign_client", last'.result)

(***************************************************************************)
(* ContractService                                                         *)
(***************************************************************************)
\* create_contract taking the first commercial for the new contract.
create_contract_sales_contact_id_first(client_id) ==
    CHOOSE u \in DOMAIN users :
        /\ users[u].department = users[clients[client_id].sales_contact_id].department
        /\ \A v \in DOMAIN users :
                users[v].department = users[u].department => u <= v

\* The sales contact given to a new contract of a client.
create_contract_sales_contact_id(client_id) == clients[client_id].sales_contact_id

ContractService_create_contract(client_id, total_amount, remaining_amount, is_signed, log_success_raises) ==
    /\ nextId.contract <= MaxContracts
    /\ IF client_id \notin DOMAIN clients
       THEN /\ last' = Result("create_contract", NULL, ValueError)
            /\ UNCHANGED <<contracts, nextId>>
       ELSE /\ contracts' = contracts @@ (nextId.contract :>
                    [client_id |-> client_id,
                     sales_contact_id |-> create_contract_sales_contact_id(client_id),
                     total_amount |-> total_amount,
                     remaining_amount |-> remaining_amount,
                     is_signed |-> is_signed])
            /\ nextId' = [nextId EXCEPT !.contract = @ + 1]
            /\ last' = Result("create_contract", nextId.contract,
                              IF log_success_raises THEN TelemetryError ELSE OK)
    /\ UNCHANGED <<users, clients, events, authVars>>
    /\ session' = session_after("create_contract", last'.result)

\* create_contract with a telemetry sink that works.
create_contract(client_id, total_amount, remaining_amount, is_signed) ==
    ContractService_create_contract(client_id, total_amount, remaining_amount,
                                    is_signed, FALSE)

update_contract(contract_id, kwargs) ==
    /\ IF contract_id \notin DOMAIN contracts
       THEN /\ last' = Result("update_contract", contract_id, ValueError)
            /\ UNCHANGED contracts
       ELSE /\ contracts' = [contracts EXCEPT ![contract_id] =
                    [@ EXCEPT !.total_amount = Get(kwargs, "total_amount", @),
                              !.remaining_amount = Get(kwargs, "remaining_amount", @),
                              !.is_signed = Get(kwargs, "is_signed", @)]]
            /\ last' = Result("update_contract", contract_id, OK)
    /\ UNCHANGED <<users, clients, events, nextId, authVars>>
    /\ session' = session_after("update_contract", last'.result)

\* delete_contract without the query of the events of the contract.
delete_contract_outcome_events(contract_id) ==
    IF contract_id \notin DOMAIN contracts THEN ValueError ELSE OK

delete_contract_outcome(contract_id) ==
    IF contract_id \notin DOMAIN contracts THEN ValueError
    ELSE IF \E e \in DOMAIN events : events[e].contract_id = contract_id
    THEN ValueError
    ELSE OK

delete_contract(contract_id) ==
    /\ last' = Result("delete_contract", contract_id, delete_contract_outcome(contract_id))
    /\ contracts' = IF delete_contract_outcome(contract_id) = OK
                    THEN Remove(contracts, contract_id) ELSE contracts
    /\ UNCHANGED <<users, clients, events, nextId, authVars>>
    /\ session' = session_after("delete_contract", last'.result)

(***************************************************************************)
(* EventService                                                            *)
(***************************************************************************)
create_event_outcome(contract_id, event_start_date, event_end_date, attendees) ==
    IF contract_id \notin DOMAIN contracts THEN ValueError
    ELSE IF event_end_date <= event_start_date THEN ValueError
    ELSE IF attendees < 1 THEN ValueError
    ELSE OK

create_event(contract_id, event_start_date, event_end_date, attendees) ==
    /\ nextId.event <= MaxEvents
    /\ IF create_event_outcome(contract_id, event_start_date, event_end_date, attendees) = OK
       THEN /\ events' = events @@ (nextId.event :>
                    [contract_id |-> contract_id,
                     support_contact_id |-> NULL,
                     event_start_date |-> event_start_date,
                     event_end_date |-> event_end_date,
                     attendees |-> attendees])
            /\ nextId' = [nextId EXCEPT !.event = @ + 1]
            /\ last' = Result("create_event", nextId.event, OK)
       ELSE /\ last' = Result("create_event", NULL, ValueError)
            /\ UNCHANGED <<events, nextId>>
    /\ UNCHANGED <<users, clients, contracts, authVars>>
    /\ session' = session_after("create_event", last'.result)

\* update_event comparing a start date given alone with nothing.
update_event_outcome_start_unchecked(event_id, kwargs) ==
    IF event_id \notin DOMAIN events THEN ValueError
    ELSE IF /\ "event_start_date" \in DOMAIN kwargs
            /\ "event_end_date" \in DOMAIN kwargs
            /\ kwargs.event_end_date <= kwargs.event_start_date
    THEN ValueError
    ELSE IF /\ "event_end_date" \in DOMAIN kwargs
            /\ "event_start_date" \notin DOMAIN kwargs
            /\ kwargs.event_end_date <= events[event_id].event_start_date
    THEN ValueError
    ELSE IF "attendees" \in DOMAIN kwargs /\ kwargs.attendees < 1
    THEN ValueError
    ELSE IF /\ "support_contact_id" \in DOMAIN kwargs
            /\ kwargs.support_contact_id # NULL
            /\ \/ kwargs.support_contact_id \notin DOMAIN users
               \/ users[kwargs.support_contact_id].department # SUPPORT
    THEN ValueError
    ELSE OK

update_event_outcome(event_id, kwargs) ==
    IF event_id \notin DOMAIN events THEN ValueError
    ELSE IF /\ "event_start_date" \in DOMAIN kwargs
            /\ "event_end_date" \in DOMAIN kwargs
            /\ kwargs.event_end_date <= kwargs.event_start_date
    THEN ValueError
    ELSE IF /\ "event_start_date" \in DOMAIN kwargs
            /\ "event_end_date" \notin DOMAIN kwargs
            /\ kwargs.event_start_date >= events[event_id].event_end_date
    THEN ValueError
    ELSE IF /\ "event_end_date" \in DOMAIN kwargs
            /\ "event_start_date" \notin DOMAIN kwargs
            /\ kwargs.event_end_date <= events[event_id].event_start_date
    THEN ValueError
    ELSE IF "attendees" \in DOMAIN kwargs /\ kwargs.attendees < 1
    THEN ValueError
    ELSE IF /\ "support_contact_id" \in DOMAIN kwargs
            /\ kwargs.support_contact_id # NULL
            /\ \/ kwargs.support_contact_id \notin DOMAIN users
               \/ users[kwargs.support_contact_id].department # SUPPORT
    THEN ValueError
    ELSE OK

\* The result of update_event, with the keyword map it was called with.
UpdateResult(event_id, kwargs, result) ==
    [op |-> "update_event", id |-> event_id, result |-> result, kwargs |-> kwargs]

update_event(event_id, kwargs) ==
    /\ last' = UpdateResult(event_id, kwargs, update_event_outcome(event_id, kwargs))
    /\ events' = IF update_event_outcome(event_id, kwargs) = OK
                 THEN [events EXCEPT ![event_id] =
                        [@ EXCEPT !.event_start_date = Get(kwargs, "event_start_date", @),
                                  !.event_end_date = Get(kwargs, "event_end_date", @),
                                  !.attendees = Get(kwargs, "attendees", @),
                                  !.support_contact_id = Get(kwargs, "support_contact_id", @)]]
                 ELSE events
    /\ UNCHANGED <<users, clients, contracts, nextId, authVars>>
    /\ session' = session_after("update_event", last'.result)

delete_event(event_id) ==
    /\ IF event_id \notin DOMAIN events
       THEN /\ last' = Result("delete_event", event_id, ValueError)
            /\ UNCHANGED events
       ELSE /\ events' = Remove(events, event_id)
            /\ last' = Result("delete_event", event_id, OK)
    /\ UNCHANGED <<users, clients, contracts, nextId, authVars>>
    /\ session' = session_after("delete_event", last'.result)

\* assign_event refusing an event that already has a support contact.
assign_event_outcome_once(event_id, support_id) ==
    IF event_id \notin DOMAIN events THEN ValueError
    ELSE IF support_id \notin DOMAIN users THEN ValueError
    ELSE IF users[support_id].department # SUPPORT THEN ValueError
    ELSE IF events[event_id].support_contact_id # NULL THEN ValueError
    ELSE OK

assign_event_outcome(event_id, support_id) ==
    IF event_id \notin DOMAIN events THEN ValueError
    ELSE IF support_id \notin DOMAIN users THEN ValueError
    ELSE IF users[support_id].department # SUPPORT THEN ValueError
    ELSE OK

\* The result of assign_event, with the user it was called with and the
\* support contact the event had before.
AssignResult(event_id, support_id, result) ==
    [op |-> "assign_event", id |-> event_id, result |-> result,
     support_id |-> support_id,
     old_support_id |-> IF event_id \in DOMAIN events
                        THEN events[event_id].support_contact_id ELSE NULL]

assign_event(event_id, support_id) ==
    /\ last' = AssignResult(event_id, support_id,
                            assign_event_outcome(event_id, support_id))
    /\ events' = IF assign_event_outcome(event_id, support_id) = OK
                 THEN [events EXCEPT ![event_id].support_contact_id = support_id]
                 ELSE events
    /\ UNCHANGED <<users, clients, contracts, nextId, authVars>>
    /\ session' = session_after("assign_event", last'.result)

(***************************************************************************)
(* Sessions: the token file of AuthManager, the user object that the       *)
(* interactive application keeps after a login, and the user object that   *)
(* the database session of AuthComponent keeps in its identity map for as  *)
(* long as the application or its controllers refer to it.                 *)
(***************************************************************************)
\* The User object that a query of a session returns for the row user_id:
\* the object the identity map of the session holds for that row, with the
\* attributes it was loaded with, or else an object loaded from the row.
query_user(identity_map, user_id) ==
    IF user_id \notin DOMAIN users THEN NoUser
    ELSE IF identity_map.id = user_id THEN identity_map
    ELSE Actor(users, user_id)

\* AuthManager.authenticate: the user it returns, NoUser for None.  The email
\* is the one of the row user_id, or of no row.
authenticate(identity_map, user_id, password) ==
    IF /\ query_user(identity_map, user_id) # NoUser
       /\ verify_password(password, query_user(identity_map, user_id).password)
    THEN query_user(identity_map, user_id)
    ELSE NoUser

\* The result of an authentication: for which row, with which password.
AuthResult(op, id, password, user) ==
    [op |-> op, id |-> id, password |-> password, user |-> user,
     result |-> IF user = NoUser THEN Denied ELSE OK]

\* AuthManager.get_current_user: the user it returns.  A token that does not
\* decode (expired or invalid) gives None, and so does a token of no row.
get_current_user ==
    IF token = NULL \/ token_expired \/ token \notin DOMAIN users
    THEN NoUser
    ELSE Actor(users, token)

\* get_current_user leaving the token file as it found it.
get_current_user_token_kept == token

\* AuthManager.get_current_user: the token file it leaves.  A token that does
\* not decode is removed by logout().
get_current_user_token == IF token_expired THEN NULL ELSE token

\* EpicEvents.__init__: a new process, with a new session in AuthComponent,
\* takes the user of the token file as its current user.
start ==
    /\ current_user' = get_current_user
    /\ auth_db' = get_current_user
    /\ token' = get_current_user_token
    /\ token_expired' = FALSE
    /\ last' = ActorResult("start", NULL, OK, get_current_user)
    /\ UNCHANGED dbVars

\* The interactive login: AuthManager.authenticate in the session of
\* AuthComponent saves the token, and the application and its controllers
\* keep the user it returned.
login(user_id, password) ==
    /\ current_user = NoUser
    /\ IF authenticate(auth_db, user_id, password) # NoUser
       THEN /\ token' = user_id
            /\ token_expired' = FALSE
            /\ current_user' = authenticate(auth_db, user_id, password)
            /\ auth_db' = authenticate(auth_db, user_id, password)
       ELSE UNCHANGED authVars
    /\ last' = AuthResult("login", user_id, password,
                          authenticate(auth_db, user_id, password))
    /\ UNCHANGED dbVars

\* The interactive logout: the token file is removed and the application
\* forgets its user; the controllers are not rebuilt.
logout ==
    /\ current_user # NoUser
    /\ token' = NULL
    /\ token_expired' = FALSE
    /\ current_user' = NoUser
    /\ last' = Result("logout", NULL, OK)
    /\ UNCHANGED <<dbVars, auth_db>>

\* The command "auth login": authenticate, in a session of its own, saves the
\* token and nothing else.
auth_login(user_id, password) ==
    /\ IF authenticate(NoUser, user_id, password) # NoUser
       THEN /\ token' = user_id
            /\ token_expired' = FALSE
       ELSE UNCHANGED <<token, token_expired>>
    /\ last' = AuthResult("auth_login", user_id, password,
                          authenticate(NoUser, user_id, password))
    /\ UNCHANGED <<dbVars, current_user, auth_db>>

\* The command "auth whoami": get_current_user and its effect on the file.
whoami ==
    /\ last' = ActorResult("whoami", token,
                           IF get_current_user = NoUser THEN Denied ELSE OK,
                           get_current_user)
    /\ token' = get_current_user_token
    /\ token_expired' = FALSE
    /\ UNCHANGED <<dbVars, current_user, auth_db>>

\* The command "auth logout".
auth_logout ==
    /\ token' = NULL
    /\ token_expired' = FALSE
    /\ last' = Result("auth_logout", NULL, OK)
    /\ UNCHANGED <<dbVars, current_user, auth_db>>

\* TOKEN_EXPIRY seconds have passed since the token was saved.
expire ==
    /\ token # NULL
    /\ ~token_expired
    /\ token_expired' = TRUE
    /\ last' = Result("expire", token, OK)
    /\ UNCHANGED <<dbVars, token, current_user, auth_db>>

(***************************************************************************)
(* ClientController and the "client" commands                              *)
(***************************************************************************)
ClientController_create_client(phone) ==
    /\ nextId.client <= MaxClients
    /\ IF current_user = NoUser \/ current_user.department # COMMERCIAL
       THEN /\ last' = ActorResult("ClientController_create_client", NULL, Denied, current_user)
            /\ UNCHANGED <<clients, nextId>>
       ELSE IF current_user.id \notin DOMAIN users
       THEN /\ last' = ActorResult("ClientController_create_client", NULL,
                                   IntegrityError, current_user)
            /\ UNCHANGED <<clients, nextId>>
       ELSE /\ clients' = clients @@ (nextId.client :>
                    [email |-> nextId.client, phone |-> phone,
                     sales_contact_id |-> current_user.id])
            /\ nextId' = [nextId EXCEPT !.client = @ + 1]
            /\ last' = ActorResult("ClientController_create_client", nextId.client,
                                   OK, current_user)
    /\ UNCHANGED <<users, contracts, events, authVars>>
    /\ session' = session_after("create_client", last'.result)

ClientController_update_client_outcome(client_id) ==
    IF current_user = NoUser THEN Denied
    ELSE IF current_user.department # COMMERCIAL THEN Denied
    ELSE IF client_id \notin DOMAIN clients THEN Denied
    ELSE IF clients[client_id].sales_contact_id # current_user.id THEN Denied
    ELSE OK

\* One pass of the modification loop: the form returns a value that differs
\* from the stored one.
ClientController_update_client(client_id, phone) ==
    /\ client_id \in DOMAIN clients => phone # clients[client_id].phone
    /\ last' = ActorResult("ClientController_update_client", client_id,
                           ClientController_update_client_outcome(client_id), current_user)
    /\ clients' = IF ClientController_update_client_outcome(client_id) = OK
                  THEN [clients EXCEPT ![client_id].phone = phone]
                  ELSE clients
    /\ UNCHANGED <<users, contracts, events, nextId, authVars>>
    /\ session' = session_after("update_client", last'.result)

\* The command "client update --id ... --phone ...".
client_update_outcome(id) ==
    IF get_current_user = NoUser THEN Denied
    ELSE IF id \notin DOMAIN clients THEN NotFound
    ELSE IF /\ get_current_user.department = COMMERCIAL
            /\ clients[id].sales_contact_id # get_current_user.id
    THEN Denied
    ELSE OK

client_update(id, phone) ==
    /\ last' = ActorResult("client_update", id, client_update_outcome(id), get_current_user)
    /\ clients' = IF client_update_outcome(id) = OK
                  THEN [clients EXCEPT ![id].phone = phone]
                  ELSE clients
    /\ token' = get_current_user_token
    /\ token_expired' = FALSE
    /\ UNCHANGED <<users, contracts, events, nextId, session, current_user, auth_db>>

(***************************************************************************)
(* ContractController.  The view returns the id of one of the rows it was  *)
(* given to show; a row that is not among them cannot be chosen, which the *)
(* actor meets as a refusal.                                               *)
(***************************************************************************)
\* get_commercial_contracts / get_contracts_by_commercial
get_commercial_contracts(commercial_id) ==
    {c \in DOMAIN contracts : contracts[c].sales_contact_id = commercial_id}

ContractController_create_contract_outcome(client_id) ==
    IF current_user = NoUser THEN Denied
    ELSE IF current_user.department \notin {COMMERCIAL, GESTION} THEN Denied
    ELSE IF client_id \notin DOMAIN clients THEN Denied
    ELSE IF /\ current_user.department = COMMERCIAL
            /\ clients[client_id].sales_contact_id # current_user.id
    THEN Denied
    ELSE OK

ContractController_create_contract(client_id, is_signed) ==
    /\ nextId.contract <= MaxContracts
    /\ IF ContractController_create_contract_outcome(client_id) = OK
       THEN /\ contracts' = contracts @@ (nextId.contract :>
                    [client_id |-> client_id,
                     sales_contact_id |-> clients[client_id].sales_contact_id,
                     total_amount |-> 1,
                     remaining_amount |-> 1,
                     is_signed |-> is_signed])
            /\ nextId' = [nextId EXCEPT !.contract = @ + 1]
            /\ last' = ActorResult("ContractController_create_contract",
                                   nextId.contract, OK, current_user)
       ELSE /\ last' = ActorResult("ContractController_create_contract",
                                   NULL, Denied, current_user)
            /\ UNCHANGED <<contracts, nextId>>
    /\ UNCHANGED <<users, clients, events, authVars>>
    /\ session' = session_after("create_contract", last'.result)

\* The contracts the actor is given to choose from in update_contract.
ContractController_update_contract_choices ==
    IF current_user.department = COMMERCIAL
    THEN get_commercial_contracts(current_user.id)
    ELSE DOMAIN contracts

ContractController_update_contract_outcome(contract_id) ==
    IF current_user = NoUser THEN Denied
    ELSE IF contract_id \notin ContractController_update_contract_choices THEN Denied
    ELSE OK

\* One pass of the modification loop, with one field and its new value.
ContractController_update_contract(contract_id, kwargs) ==
    /\ last' = ActorResult("ContractController_update_contract", contract_id,
                           ContractController_update_contract_outcome(contract_id),
                           current_user)
    /\ contracts' = IF ContractController_update_contract_outcome(contract_id) = OK
                    THEN [contracts EXCEPT ![contract_id].is_signed =
                                Get(kwargs, "is_signed", @)]
                    ELSE contracts
    /\ UNCHANGED <<users, clients, events, nextId, authVars>>
    /\ session' = session_after("update_contract", last'.result)

ContractController_delete_contract_outcome(contract_id) ==
    IF current_user = NoUser THEN Denied
    ELSE IF current_user.department # GESTION THEN Denied
    ELSE IF contract_id \notin DOMAIN contracts THEN Denied
    ELSE delete_contract_outcome(contract_id)

ContractController_delete_contract(contract_id) ==
    /\ last' = ActorResult("ContractController_delete_contract", contract_id,
                           ContractController_delete_contract_outcome(contract_id),
                           current_user)
    /\ contracts' = IF ContractController_delete_contract_outcome(contract_id) = OK
                    THEN Remove(contracts, contract_id) ELSE contracts
    /\ UNCHANGED <<users, clients, events, nextId, authVars>>
    /\ session' = session_after("delete_contract", last'.result)

(***************************************************************************)
(* EventController                                                         *)
(***************************************************************************)
\* create_event offering the contracts whether they are signed or not.
EventController_create_event_choices_unsigned ==
    IF current_user.department = GESTION THEN DOMAIN contracts
    ELSE IF current_user.department = COMMERCIAL
    THEN get_commercial_contracts(current_user.id)
    ELSE {}

\* The signed contracts the actor is given to choose from in create_event.
EventController_create_event_choices ==
    IF current_user.department = GESTION
    THEN {c \in DOMAIN contracts : contracts[c].is_signed}
    ELSE IF current_user.department = COMMERCIAL
    THEN {c \in get_commercial_contracts(current_user.id) : contracts[c].is_signed}
    ELSE {}

EventController_create_event_outcome(contract_id) ==
    IF current_user = NoUser THEN Denied
    ELSE IF current_user.department \notin {COMMERCIAL, GESTION} THEN Denied
    ELSE IF contract_id \notin EventController_create_event_choices THEN Denied
    ELSE create_event_outcome(contract_id, 1, 2, 1)

EventController_create_event(contract_id) ==
    /\ nextId.event <= MaxEvents
    /\ IF EventController_create_event_outcome(contract_id) = OK
       THEN /\ events' = events @@ (nextId.event :>
                    [contract_id |-> contract_id,
                     support_contact_id |-> NULL,
                     event_start_date |-> 1,
                     event_end_date |-> 2,
                     attendees |-> 1])
            /\ nextId' = [nextId EXCEPT !.event = @ + 1]
            /\ last' = ActorResult("EventController_create_event", contract_id,
                                   OK, current_user)
       ELSE /\ last' = ActorResult("EventController_create_event", contract_id,
                                   EventController_create_event_outcome(contract_id),
                                   current_user)
            /\ UNCHANGED <<events, nextId>>
    /\ UNCHANGED <<users, clients, contracts, authVars>>
    /\ session' = session_after("create_event", last'.result)

\* update_event offering every event to a commercial.
EventController_update_event_choices_all ==
    IF current_user.department \in {GESTION, COMMERCIAL} THEN DOMAIN events
    ELSE IF current_user.department = SUPPORT
    THEN {e \in DOMAIN events : events[e].support_contact_id = current_user.id}
    ELSE {}

\* The events the actor is given to choose from in update_event.
EventController_update_event_choices ==
    IF current_user.department = GESTION THEN DOMAIN events
    ELSE IF current_user.department = COMMERCIAL
    THEN {e \in DOMAIN events :
            events[e].contract_id \in get_commercial_contracts(current_user.id)}
    ELSE IF current_user.department = SUPPORT
    THEN {e \in DOMAIN events : events[e].support_contact_id = current_user.id}
    ELSE {}

EventController_update_event_outcome(event_id, kwargs) ==
    IF current_user = NoUser THEN Denied
    ELSE IF event_id \notin EventController_update_event_choices THEN Denied
    ELSE IF /\ current_user.department = SUPPORT
            /\ events[event_id].support_contact_id # current_user.id
    THEN Denied
    ELSE update_event_outcome(event_id, kwargs)

EventController_update_event(event_id, kwargs) ==
    /\ last' = ActorResult("EventController_update_event", event_id,
                           EventController_update_event_outcome(event_id, kwargs),
                           current_user)
    /\ events' = IF EventController_update_event_outcome(event_id, kwargs) = OK
                 THEN [events EXCEPT ![event_id].attendees = Get(kwargs, "attendees", @)]
                 ELSE events
    /\ UNCHANGED <<users, clients, contracts, nextId, authVars>>
    /\ session' = session_after("update_event", last'.result)

\* get_users_by_department(DepartmentType.SUPPORT)
support_staff == {u \in DOMAIN users : users[u].department = SUPPORT}

\* assign_event without the test of the department of the current user.
EventController_assign_event_outcome_any(event_id, support_id) ==
    IF current_user = NoUser THEN Denied
    ELSE IF event_id \notin DOMAIN events THEN Denied
    ELSE IF support_id \notin support_staff THEN Denied
    ELSE assign_event_outcome(event_id, support_id)

EventController_assign_event_outcome(event_id, support_id) ==
    IF current_user = NoUser THEN Denied
    ELSE IF current_user.department # GESTION THEN Denied
    ELSE IF event_id \notin DOMAIN events THEN Denied
    ELSE IF support_id \notin support_staff THEN Denied
    ELSE assign_event_outcome(event_id, support_id)

\* The word of the success message ("assigné" or "réassigné"), chosen by
\* the support contact of the event object that the controller holds.
EventController_assign_event_action(event) ==
    IF event.support_contact_id # NULL THEN "reassigned" ELSE "assigned"

\* What assign_event shows to its current user: after a success, the
\* message, whose word is chosen after the service has updated the event
\* object; old_support_id is the support contact read before the call.
AssignActorResult(event_id, result, event) ==
    [op |-> "EventController_assign_event", id |-> event_id, result |-> result,
     actor |-> current_user,
     old_support_id |-> IF event_id \in DOMAIN events
                        THEN events[event_id].support_contact_id ELSE NULL,
     action |-> IF result = OK THEN EventController_assign_event_action(event)
                ELSE "none"]

EventController_assign_event(event_id, support_id) ==
    /\ events' = IF EventController_assign_event_outcome(event_id, support_id) = OK
                 THEN [events EXCEPT ![event_id].support_contact_id = support_id]
                 ELSE events
    /\ last' = AssignActorResult(event_id,
                    EventController_assign_event_outcome(event_id, support_id),
                    IF event_id \in DOMAIN events THEN events'[event_id] ELSE NoUser)
    /\ UNCHANGED <<users, clients, contracts, nextId, authVars>>
    /\ session' = session_after("assign_event", last'.result)

EventController_delete_event_outcome(event_id) ==
    IF current_user = NoUser THEN Denied
    ELSE IF current_user.department \notin {GESTION} THEN Denied
    ELSE IF event_id \notin DOMAIN events THEN Denied
    ELSE OK

EventController_delete_event(event_id) ==
    /\ last' = ActorResult("EventController_delete_event", event_id,
                           EventController_delete_event_outcome(event_id), current_user)
    /\ events' = IF EventController_delete_event_outcome(event_id) = OK
                 THEN Remove(events, event_id) ELSE events
    /\ UNCHANGED <<users, clients, contracts, nextId, authVars>>
    /\ session' = session_after("delete_event", last'.result)

(***************************************************************************)
(* ClientController.reassign_client                                        *)
(***************************************************************************)
\* get_available_commercials
get_available_commercials == {u \in DOMAIN users : users[u].department = COMMERCIAL}

ClientController_reassign_client_outcome(client_id, commercial_id) ==
    IF current_user = NoUser THEN Denied
    ELSE IF current_user.department # GESTION THEN Denied
    ELSE IF client_id \notin DOMAIN clients THEN Denied
    ELSE IF commercial_id \notin get_available_commercials THEN Denied
    ELSE reassign_client_outcome(client_id, commercial_id)

ClientController_reassign_client(client_id, commercial_id) ==
    /\ last' = ActorResult("ClientController_reassign_client", client_id,
                           ClientController_reassign_client_outcome(client_id, commercial_id),
                           current_user)
    /\ clients' = IF ClientController_reassign_client_outcome(client_id, commercial_id) = OK
                  THEN [clients EXCEPT ![client_id].sales_contact_id = commercial_id]
                  ELSE clients
    /\ UNCHANGED <<users, contracts, events, nextId, authVars>>
    /\ session' = session_after("reassign_client", last'.result)

(***************************************************************************)
(* UserController.  It holds no current user and tests nothing: it is      *)
(* reached from the user management menu of GestionView, which the         *)
(* application shows to a current user of department GESTION.              *)
(***************************************************************************)
\* handle_department_menu and GestionView: is the user management menu shown?
show_user_management_menu ==
    IF current_user = NoUser THEN Denied
    ELSE IF current_user.department # GESTION THEN Denied
    ELSE OK

UserController_create_user(department, password, salt) ==
    /\ nextId.user <= MaxUsers
    /\ IF show_user_management_menu = OK
       THEN /\ users' = users @@ (nextId.user :>
                    [email |-> nextId.user, employee_number |-> nextId.user,
                     department |-> department,
                     password |-> hash_password(password, salt)])
            /\ nextId' = [nextId EXCEPT !.user = @ + 1]
            /\ last' = ActorResult("UserController_create_user", nextId.user,
                                   OK, current_user)
       ELSE /\ last' = ActorResult("UserController_create_user", NULL,
                                   Denied, current_user)
            /\ UNCHANGED <<users, nextId>>
    /\ UNCHANGED <<clients, contracts, events, authVars>>
    /\ session' = session_after("create_user", last'.result)

UserController_update_user_outcome(user_id, updated_data, salt) ==
    IF show_user_management_menu # OK THEN Denied
    ELSE IF user_id \notin DOMAIN users THEN Denied
    ELSE IF users_unique_fails(user_id, updated_user(users[user_id], updated_data, salt))
    THEN IntegrityError
    ELSE OK

\* One pass of the modification loop, with the field the form returned.
UserController_update_user(user_id, updated_data, salt) ==
    /\ last' = ActorResult("UserController_update_user", user_id,
                           UserController_update_user_outcome(user_id, updated_data, salt),
                           current_user)
    /\ users' = IF UserController_update_user_outcome(user_id, updated_data, salt) = OK
                THEN [users EXCEPT ![user_id] = updated_user(@, updated_data, salt)]
                ELSE users
    /\ UNCHANGED <<clients, contracts, events, nextId, authVars>>
    /\ session' = session_after("update_user", last'.result)

UserController_delete_user_outcome(user_id) ==
    IF show_user_management_menu # OK THEN Denied
    ELSE IF user_id \notin DOMAIN users THEN Denied
    ELSE delete_user_outcome(user_id)

UserController_delete_user(user_id) ==
    /\ last' = ActorResult("UserController_delete_user", user_id,
                           UserController_delete_user_outcome(user_id), current_user)
    /\ users' = IF UserController_delete_user_outcome(user_id) = OK
                THEN Remove(users, user_id) ELSE users
    /\ UNCHANGED <<clients, contracts, events, nextId, authVars>>
    /\ session' = session_after("delete_user", last'.result)

(***************************************************************************)
(* The accounts made outside the menus.                                    *)
(***************************************************************************)
\* The command "auth create-user": it opens a session of its own and adds
\* the user; it never reads the token.
auth_create_user(department, password, salt) ==
    /\ nextId.user <= MaxUsers
    /\ users' = users @@ (nextId.user :>
            [email |-> nextId.user, employee_number |-> nextId.user,
             department |-> department, password |-> hash_password(password, salt)])
    /\ nextId' = [nextId EXCEPT !.user = @ + 1]
    /\ last' = ActorResult("auth_create_user", nextId.user, OK, get_current_user)
    /\ UNCHANGED <<clients, contracts, events, session, authVars>>

\* AuthView.show_auth_menu: "create_first_user" is offered when the users
\* table is empty, "login" when it is not.
show_auth_menu == IF DOMAIN users = {} THEN "create_first_user" ELSE "login"

\* handle_auth_menu with "create_first_user": AuthComponent.signup, whose form
\* sets the department to GESTION.
signup(password, salt) ==
    /\ current_user = NoUser
    /\ show_auth_menu = "create_first_user"
    /\ nextId.user <= MaxUsers
    /\ users' = users @@ (nextId.user :>
            [email |-> nextId.user, employee_number |-> nextId.user,
             department |-> GESTION, password |-> hash_password(password, salt)])
    /\ nextId' = [nextId EXCEPT !.user = @ + 1]
    /\ last' = ActorResult("signup", nextId.user, OK, current_user)
    /\ UNCHANGED <<clients, contracts, events, authVars>>
    /\ session' = session_after("create_user", last'.result)

(***************************************************************************)
(* The keyword maps the callers pass.                                      *)
(***************************************************************************)
UserData == {<<>>} \cup [department : DepartmentType]

ClientKwargs == [phone : Phones]

SignKwargs == [is_signed : BOOLEAN]

AmountKwargs ==
    [total_amount : Amounts] \cup [remaining_amount : Amounts]
        \cup [total_amount : Amounts, remaining_amount : Amounts]

SupportKwargs == [support_contact_id : UserIds]

\* The ids passed as the sales contact of a new client: the callers pass the
\* id of a commercial (or an id that is no user's).
SalesContacts ==
    {u \in UserIds : u \in DOMAIN users => users[u].department = COMMERCIAL}

(***************************************************************************)
(* The users on their own: every call of UserService.                      *)
(***************************************************************************)
NextUsers ==
    \/ \E d \in DepartmentType : create_user(d, "pw1", "s1")
    \/ \E u \in UserIds, data \in UserData : update_user(u, data, "s1")
    \/ \E u \in UserIds : delete_user(u)

SpecUsers == Init /\ [][NextUsers]_vars

(***************************************************************************)
(* The service layer over the four tables: every call of the four          *)
(* services, with one value of the amounts and of the dates.               *)
(***************************************************************************)
Next ==
    \/ \E d \in DepartmentType : create_user(d, "pw1", "s1")
    \/ \E u \in UserIds, data \in UserData : update_user(u, data, "s1")
    \/ \E u \in UserIds : delete_user(u)
    \/ \E u \in SalesContacts : create_client("p1", u)
    \/ \E c \in ClientIds, kw \in ClientKwargs : update_client(c, kw)
    \/ \E c \in ClientIds, u \in UserIds : reassign_client(c, u)
    \/ \E c \in ClientIds, s \in BOOLEAN : create_contract(c, 1, 1, s)
    \/ \E c \in ContractIds, kw \in SignKwargs : update_contract(c, kw)
    \/ \E c \in ContractIds : delete_contract(c)
    \/ \E c \in ContractIds : create_event(c, 1, 2, 1)
    \/ \E e \in EventIds, kw \in SupportKwargs : update_event(e, kw)
    \/ \E e \in EventIds, u \in UserIds : assign_event(e, u)
    \/ \E e \in EventIds : delete_event(e)

Spec == Init /\ [][Next]_vars
(***************************************************************************)
(* The contracts of one client, with every pair of amounts.                *)
(***************************************************************************)
NextAmounts ==
    \/ create_user(COMMERCIAL, "pw1", "s1")
    \/ \E u \in SalesContacts : create_client("p1", u)
    \/ \E c \in ClientIds, t \in Amounts, r \in Amounts, s \in BOOLEAN :
            create_contract(c, t, r, s)
    \/ \E c \in ContractIds, kw \in AmountKwargs \cup SignKwargs : update_contract(c, kw)
    \/ \E c \in ContractIds : delete_contract(c)

SpecAmounts == Init /\ [][NextAmounts]_vars

(***************************************************************************)
(* The clients as the actors reach them: the interactive application and   *)
(* the commands, with the users and the reassignments that set the scene.  *)
(***************************************************************************)
NextAccess ==
    \/ \E d \in DepartmentType : create_user(d, "pw1", "s1")
    \/ \E u \in UserIds : login(u, "pw1")
    \/ logout
    \/ \E u \in UserIds : auth_login(u, "pw1")
    \/ \E p \in Phones : ClientController_create_client(p)
    \/ \E c \in ClientIds, p \in Phones : ClientController_update_client(c, p)
    \/ \E c \in ClientIds, p \in Phones : client_update(c, p)
    \/ \E c \in ClientIds, u \in UserIds : reassign_client(c, u)

SpecAccess == Init /\ [][NextAccess]_vars

(***************************************************************************)
(* The contracts and the events as the actors reach them through the       *)
(* controllers of the interactive application.                             *)
(***************************************************************************)
AttendeesKwargs == [attendees : {1, 2}]

NextControllers ==
    \/ \E d \in DepartmentType : create_user(d, "pw1", "s1")
    \/ \E u \in UserIds : login(u, "pw1")
    \/ logout
    \/ ClientController_create_client("p1")
    \/ \E c \in ClientIds, u \in UserIds : ClientController_reassign_client(c, u)
    \/ \E c \in ClientIds, s \in BOOLEAN : ContractController_create_contract(c, s)
    \/ \E c \in ContractIds, kw \in SignKwargs : ContractController_update_contract(c, kw)
    \/ \E c \in ContractIds : ContractController_delete_contract(c)
    \/ \E c \in ContractIds : EventController_create_event(c)
    \/ \E e \in EventIds, kw \in AttendeesKwargs : EventController_update_event(e, kw)
    \/ \E e \in EventIds, u \in UserIds : EventController_assign_event(e, u)
    \/ \E e \in EventIds : EventController_delete_event(e)

SpecControllers == Init /\ [][NextControllers]_vars

(***************************************************************************)
(* The accounts: the first account, the user management menu and the       *)
(* commands, with one password.                                            *)
(***************************************************************************)
DepartmentData == [department : DepartmentType]

NextAccounts ==
    \/ signup("pw1", "s1")
    \/ \E u \in UserIds : login(u, "pw1")
    \/ logout
    \/ \E u \in UserIds : auth_login(u, "pw1")
    \/ auth_logout
    \/ \E d \in DepartmentType : UserController_create_user(d, "pw1", "s1")
    \/ \E u \in UserIds, data \in DepartmentData : UserController_update_user(u, data, "s1")
    \/ \E u \in UserIds : UserController_delete_user(u)
    \/ \E d \in DepartmentType : auth_create_user(d, "pw1", "s1")

SpecAccounts == Init /\ [][NextAccounts]_vars

(***************************************************************************)
(* The sessions: the passwords set and changed, the token file saved,      *)
(* expired and read, by the interactive application and by the commands.   *)
(***************************************************************************)
PasswordData == [password : Passwords]

NextSessions ==
    \/ \E d \in {GESTION, COMMERCIAL}, pw \in Passwords : create_user(d, pw, "s1")
    \/ \E u \in UserIds, data \in PasswordData :
            UserController_update_user(u, data, "s2")
    \/ start
    \/ \E u \in UserIds, pw \in Passwords : login(u, pw)
    \/ logout
    \/ \E u \in UserIds, pw \in Passwords : auth_login(u, pw)
    \/ auth_logout
    \/ whoami
    \/ expire

SpecSessions == Init /\ [][NextSessions]_vars

(***************************************************************************)
(* The unique columns: users and clients created and updated with emails   *)
(* and employee numbers drawn from a few values.                           *)
(***************************************************************************)
UniqueUserData == [email : Emails] \cup [employee_number : EmployeeNumbers]

UniqueClientKwargs == [email : Emails]

NextUnique ==
    \/ \E e \in Emails, n \in EmployeeNumbers, d \in {COMMERCIAL, GESTION} :
            UserService_create_user(e, n, d, "pw1", "s1")
    \/ \E u \in UserIds, data \in UniqueUserData : update_user(u, data, "s1")
    \/ \E u \in UserIds : delete_user(u)
    \/ \E e \in Emails, u \in SalesContacts :
            ClientService_create_client(e, "p1", u, FALSE)
    \/ \E c \in 1..MaxClientsUnique, kw \in UniqueClientKwargs : update_client(c, kw)

SpecUnique == Init /\ [][NextUnique]_vars

(***************************************************************************)
(* The operations that end in an error: every service of clients,          *)
(* contracts and events called with arguments that its checks or the       *)
(* database refuse, and with a telemetry sink that may raise.              *)
(***************************************************************************)
AttendeesOrNone == [attendees : 0..1]

NextErrors ==
    \/ \E d \in {COMMERCIAL, SUPPORT} : create_user(d, "pw1", "s1")
    \/ \E e \in Emails, u \in UserIds, raises \in BOOLEAN :
            ClientService_create_client(e, "p1", u, raises)
    \/ \E c \in 1..MaxClientsUnique, u \in UserIds : reassign_client(c, u)
    \/ \E c \in 1..MaxClientsUnique, raises \in BOOLEAN :
            ContractService_create_contract(c, 1, 1, TRUE, raises)
    \/ \E c \in ContractIds, kw \in SignKwargs : update_contract(c, kw)
    \/ \E c \in ContractIds : delete_contract(c)
    \/ \E c \in ContractIds, a \in 0..1 : create_event(c, 1, 2, a)
    \/ \E e \in EventIds, kw \in AttendeesOrNone : update_event(e, kw)
    \/ \E e \in EventIds, u \in UserIds : assign_event(e, u)
    \/ \E e \in EventIds : delete_event(e)

SpecErrors == Init /\ [][NextErrors]_vars

(***************************************************************************)
(* The events of one contract: created and updated with every pair of      *)
(* dates and number of attendees, assigned and updated with a support      *)
(* contact or with none.                                                   *)
(***************************************************************************)
MaxDate == 3

Dates == 1..MaxDate

DateKwargs ==
    [event_start_date : Dates] \cup [event_end_date : Dates]
        \cup [event_start_date : Dates, event_end_date : Dates]

AttendeesAny == [attendees : 0..2]

SupportOrNoneKwargs == [support_contact_id : UserIds \cup {NULL}]

NextEvents ==
    \/ \E d \in {COMMERCIAL, SUPPORT} : create_user(d, "pw1", "s1")
    \/ \E u \in SalesContacts : create_client("p1", u)
    \/ \E c \in ClientIds : create_contract(c, 1, 1, TRUE)
    \/ \E c \in ContractIds, s \in Dates, e \in Dates, a \in 0..2 :
            create_event(c, s, e, a)
    \/ \E e \in EventIds,
          kw \in DateKwargs \cup AttendeesAny \cup SupportOrNoneKwargs :
            update_event(e, kw)
    \/ \E e \in EventIds, u \in UserIds : assign_event(e, u)
    \/ \E e \in EventIds : delete_event(e)

SpecEvents == Init /\ [][NextEvents]_vars

(***************************************************************************)
(* The claims.                                                             *)
(***************************************************************************)
HasGestion(us) == \E u \in DOMAIN us : us[u].department = GESTION

\* C1: once a GESTION user exists, every step of create_user, update_user
\* and delete_user leaves at least one user whose department is GESTION.
C1_GestionKept == [][HasGestion(users) => HasGestion(users')]_vars

\* The user a delete_user step is about is the only GESTION user.
SoleGestion(user_id) ==
    /\ user_id \in DOMAIN users
    /\ users[user_id].department = GESTION
    /\ GestionCount(users) = 1

\* C2: delete_user of the only GESTION user ends in an error, the user is
\* still there and the number of GESTION users is still 1.
C2_SoleGestionNotDeleted ==
    [][(last'.op = "delete_user" /\ SoleGestion(last'.id))
        => /\ last'.result = ValueError
           /\ last'.id \in DOMAIN users'
           /\ users'[last'.id].department = GESTION
           /\ GestionCount(users') = 1]_vars

C2_Witness ==
    /\ last.op = "delete_user"
    /\ last.result = ValueError
    /\ SoleGestion(last.id)
    /\ Cardinality(DOMAIN users) > 1

\* C3: create_event succeeds only against a contract that is signed at that
\* moment; against an unsigned one it ends in an error and adds no event.
C3_EventNeedsSignedContract ==
    [][last'.op = "create_event"
        => /\ last'.result = OK => contracts[events'[last'.id].contract_id].is_signed
           /\ last'.result # OK => events' = events]_vars
\* C4: after every successful create_contract or update_contract the stored
\* contract has 0 <= remaining_amount <= total_amount.
C4_AmountsBounded ==
    \A c \in DOMAIN contracts :
        /\ 0 <= contracts[c].remaining_amount
        /\ contracts[c].remaining_amount <= contracts[c].total_amount

\* C5: every event with a support contact refers to a user whose department
\* is SUPPORT.
C5_SupportContactIsSupport ==
    \A e \in DOMAIN events :
        events[e].support_contact_id # NULL
            => /\ events[e].support_contact_id \in DOMAIN users
               /\ users[events[e].support_contact_id].department = SUPPORT

\* C6: every client's sales contact is an existing user whose department is
\* COMMERCIAL.
C6_SalesContactIsCommercial ==
    \A c \in DOMAIN clients :
        /\ clients[c].sales_contact_id \in DOMAIN users
        /\ users[clients[c].sales_contact_id].department = COMMERCIAL

\* C7: every contract's sales_contact_id refers to an existing user, also
\* after its client went to another commercial and the former one is deleted.
C7_ContractSalesContactExists ==
    \A c \in DOMAIN contracts : contracts[c].sales_contact_id \in DOMAIN users

C7_Witness ==
    /\ last.op = "delete_user"
    /\ last.result = IntegrityError
    /\ \E c \in DOMAIN contracts :
        /\ contracts[c].sales_contact_id = last.id
        /\ clients[contracts[c].client_id].sales_contact_id # last.id

HasEvents(contract_id) == \E e \in DOMAIN events : events[e].contract_id = contract_id

\* C8: delete_contract of a contract that an event refers to ends in an error
\* and changes no contract and no event; of a contract without events it
\* succeeds and removes that contract and nothing else.
C8_DeleteContract ==
    [][(last'.op = "delete_contract" /\ last'.id \in DOMAIN contracts)
        => IF HasEvents(last'.id)
           THEN /\ last'.result = ValueError
                /\ contracts' = contracts
                /\ events' = events
           ELSE /\ last'.result = OK
                /\ DOMAIN contracts' = DOMAIN contracts \ {last'.id}
                /\ \A c \in DOMAIN contracts' : contracts'[c] = contracts[c]
                /\ UNCHANGED <<users, clients, events>>]_vars

C8_Witness ==
    /\ last.op = "delete_contract"
    /\ last.result = ValueError
    /\ last.id \in DOMAIN contracts
    /\ HasEvents(last.id)

HasDependents(user_id) ==
    \/ \E c \in DOMAIN clients : clients[c].sales_contact_id = user_id
    \/ \E e \in DOMAIN events : events[e].support_contact_id = user_id

\* C9: delete_user of a user who is the sales contact of a client or the
\* support contact of an event ends in an error and changes no user, no
\* client and no event.
C9_UserWithDependentsNotDeleted ==
    [][(last'.op = "delete_user" /\ last'.id \in DOMAIN users /\ HasDependents(last'.id))
        => /\ last'.result = ValueError
           /\ UNCHANGED <<users, clients, events>>]_vars

C9_Witness ==
    /\ last.op = "delete_user"
    /\ last.result = ValueError
    /\ last.id \in DOMAIN users
    /\ users[last.id].department = SUPPORT
    /\ \E e \in DOMAIN events : events[e].support_contact_id = last.id
\* The actor is a commercial and the sales contact of the client.
IsOwner(actor, client_id) ==
    /\ actor # NoUser
    /\ actor.department = COMMERCIAL
    /\ actor.id = clients[client_id].sales_contact_id

\* C10: update_client of client X succeeds for a COMMERCIAL actor iff the
\* actor is X's sales contact; for another commercial, a SUPPORT actor or a
\* GESTION actor it is denied and X is left as it was.
C10_UpdateClientByOwnerOnly ==
    [][(/\ last'.op \in {"ClientController_update_client", "client_update"}
        /\ last'.id \in DOMAIN clients
        /\ last'.actor # NoUser)
        => /\ last'.result = OK <=> IsOwner(last'.actor, last'.id)
           /\ last'.result # OK => clients' = clients]_vars

\* The policy of update_contract: a commercial on a contract of which they
\* are the sales contact, or anyone of GESTION.
MayUpdateContract(actor, contract_id) ==
    \/ actor.department = GESTION
    \/ /\ actor.department = COMMERCIAL
       /\ contracts[contract_id].sales_contact_id = actor.id

\* C11: update_contract of an existing contract goes through for a COMMERCIAL
\* actor iff the actor is the contract's sales contact, never for a SUPPORT
\* actor, always for a GESTION actor; a refused call changes no contract.
C11_UpdateContractPolicy ==
    [][(/\ last'.op = "ContractController_update_contract"
        /\ last'.id \in DOMAIN contracts
        /\ last'.actor # NoUser)
        => /\ last'.result = OK <=> MayUpdateContract(last'.actor, last'.id)
           /\ last'.result # OK => contracts' = contracts]_vars

\* The actor is an authenticated user of department GESTION.
IsGestion(actor) == actor # NoUser /\ actor.department = GESTION

\* C12: create_user, update_user and delete_user asked for by a COMMERCIAL
\* or SUPPORT actor, or by a caller who is not authenticated, are refused and
\* change no user.
C12_UsersByGestionOnly ==
    [][(/\ last'.op \in {"UserController_create_user", "UserController_update_user",
                         "UserController_delete_user", "auth_create_user"}
        /\ ~IsGestion(last'.actor))
        => /\ last'.result = Denied
           /\ users' = users]_vars

\* The policy of create_event: the contract is signed, and the actor is of
\* GESTION or is the commercial who is the contract's sales contact.
MayCreateEvent(actor, contract_id) ==
    /\ contracts[contract_id].is_signed
    /\ \/ actor.department = GESTION
       \/ /\ actor.department = COMMERCIAL
          /\ contracts[contract_id].sales_contact_id = actor.id

\* C13: create_event on an existing contract goes through for a COMMERCIAL
\* actor iff the actor is the contract's sales contact and the contract is
\* signed, for a GESTION actor iff the contract is signed, never for a
\* SUPPORT actor.
C13_CreateEventPolicy ==
    [][(/\ last'.op = "EventController_create_event"
        /\ last'.id \in DOMAIN contracts
        /\ last'.actor # NoUser)
        => /\ last'.result = OK <=> MayCreateEvent(last'.actor, last'.id)
           /\ last'.result # OK => events' = events]_vars

\* A commercial was refused an event on the signed contract of another.
C13_Witness ==
    /\ last.op = "EventController_create_event"
    /\ last.result = Denied
    /\ last.id \in DOMAIN contracts
    /\ contracts[last.id].is_signed
    /\ last.actor.department = COMMERCIAL
    /\ contracts[last.id].sales_contact_id # last.actor.id

\* The policy of update_event: anyone of GESTION, the commercial who is the
\* sales contact of the event's contract, the support contact of the event.
MayUpdateEvent(actor, event_id) ==
    \/ actor.department = GESTION
    \/ /\ actor.department = COMMERCIAL
       /\ events[event_id].contract_id \in DOMAIN contracts
       /\ contracts[events[event_id].contract_id].sales_contact_id = actor.id
    \/ /\ actor.department = SUPPORT
       /\ events[event_id].support_contact_id = actor.id

\* C14: update_event of an existing event goes through for a COMMERCIAL actor
\* iff the actor is the sales contact of the event's contract, for a SUPPORT
\* actor iff the actor is the event's support contact, always for a GESTION
\* actor; a refused call leaves the event as it was.
C14_UpdateEventPolicy ==
    [][(/\ last'.op = "EventController_update_event"
        /\ last'.id \in DOMAIN events
        /\ last'.actor # NoUser)
        => /\ last'.result = OK <=> MayUpdateEvent(last'.actor, last'.id)
           /\ last'.result # OK => events' = events]_vars

\* The support contact of an event has updated it.
C14_Witness ==
    /\ last.op = "EventController_update_event"
    /\ last.result = OK
    /\ last.id \in DOMAIN events
    /\ last.actor.department = SUPPORT
    /\ events[last.id].support_contact_id = last.actor.id
    /\ events[last.id].attendees = 2

\* C15: reassign_client, delete_contract, assign_event and delete_event asked
\* for by an actor who is not of GESTION are refused and change no client, no
\* contract and no event; and no step changes the support contact of an
\* event unless it is an assign_event of a GESTION actor.
C15_GestionOnlyOperations ==
    [][/\ (/\ last'.op \in {"ClientController_reassign_client",
                            "ContractController_delete_contract",
                            "EventController_assign_event",
                            "EventController_delete_event"}
           /\ ~IsGestion(last'.actor))
           => /\ last'.result = Denied
              /\ UNCHANGED <<clients, contracts, events>>
       /\ (\E e \in DOMAIN events \cap DOMAIN events' :
                events'[e].support_contact_id # events[e].support_contact_id)
           => /\ last'.op = "EventController_assign_event"
              /\ IsGestion(last'.actor)]_vars

\* A commercial was refused the assignment of an existing event while a
\* support user exists.
C15_Witness ==
    /\ last.op = "EventController_assign_event"
    /\ last.result = Denied
    /\ last.id \in DOMAIN events
    /\ last.actor.department = COMMERCIAL
    /\ support_staff # {}

\* C16: a successful create_contract gives the contract the sales contact
\* that its client has at that moment, and no later step changes the sales
\* contact of a contract, reassign_client of its client included.
C16_ContractSalesContactFixed ==
    [][/\ (last'.op = "create_contract" /\ last'.result = OK)
           => contracts'[last'.id].sales_contact_id
                = clients[contracts'[last'.id].client_id].sales_contact_id
       /\ \A c \in DOMAIN contracts \cap DOMAIN contracts' :
                contracts'[c].sales_contact_id = contracts[c].sales_contact_id]_vars

\* A client went to another commercial and its contract kept the former one.
C16_Witness ==
    /\ last.op = "reassign_client"
    /\ last.result = OK
    /\ \E c \in DOMAIN contracts :
        /\ contracts[c].client_id = last.id
        /\ contracts[c].sales_contact_id # clients[last.id].sales_contact_id

\* C17: assign_event(E, U) succeeds iff E exists and U exists with department
\* SUPPORT; on success U is the support contact of E, whether or not E had
\* one before; on failure the support contact of E is what it was.
C17_AssignEvent ==
    [][last'.op = "assign_event"
        => /\ last'.result = OK
                <=> /\ last'.id \in DOMAIN events
                    /\ last'.support_id \in DOMAIN users
                    /\ users[last'.support_id].department = SUPPORT
           /\ last'.result = OK
                => events'[last'.id].support_contact_id = last'.support_id
           /\ last'.result # OK => events' = events]_vars

\* An event that had a support contact was given another one.
C17_Witness ==
    /\ last.op = "assign_event"
    /\ last.result = OK
    /\ last.old_support_id \notin {NULL, last.support_id}
    /\ events[last.id].support_contact_id = last.support_id

\* The steps that call AuthManager.get_current_user.
CallsGetCurrentUser(op) == op \in {"whoami", "start", "client_update"}

\* C18: get_current_user with a stored token that is expired or invalid
\* returns no user, as it does with no token stored, and removes the stored
\* token; from then on get_current_user returns no user until an authenticate
\* call succeeds, the only step that stores a token.
C18_ExpiredTokenIsNoSession ==
    [][/\ (CallsGetCurrentUser(last'.op) /\ (token = NULL \/ token_expired))
            => (last'.actor = NoUser /\ token' = NULL)
       /\ (token = NULL /\ token' # NULL)
            => (last'.op \in {"login", "auth_login"} /\ last'.result = OK)]_vars

\* "auth whoami" found the token of an existing user expired and removed it.
C18_Witness ==
    /\ last.op = "whoami"
    /\ last.id \in DOMAIN users
    /\ last.result = Denied
    /\ last.actor = NoUser
    /\ token = NULL

\* The password most recently set for the row user_id: create_user and
\* update_user store its hash and nothing else writes the column.
password_set(user_id) ==
    CHOOSE password \in Passwords :
        verify_password(password, users[user_id].password)

\* C19: authenticate returns the user and stores a session token iff a user
\* with that email exists and the password is the one most recently set for
\* it; otherwise it returns no user and leaves the stored token as it was.
C19_AuthenticateByLatestPassword ==
    [][last'.op \in {"login", "auth_login"}
        => /\ last'.result = OK
                <=> /\ last'.id \in DOMAIN users
                    /\ last'.password = password_set(last'.id)
           /\ last'.result = OK
                => (last'.user.id = last'.id /\ token' = last'.id)
           /\ last'.result # OK
                => (last'.user = NoUser /\ token' = token
                        /\ token_expired' = token_expired)]_vars

\* C20: a user account is created without an authenticated GESTION actor
\* only while no user exists, and that account is of GESTION; once a user
\* exists no entry point creates a user for such a caller.
C20_BootstrapAccountOnly ==
    [][(nextId'.user # nextId.user /\ ~IsGestion(last'.actor))
        => /\ DOMAIN users = {}
           /\ users'[nextId.user].department = GESTION]_vars

\* No two rows of users share an email or an employee number, no two rows
\* of clients an email.
UniqueRows(us, cs) ==
    /\ \A u, v \in DOMAIN us :
            u # v => /\ us[u].email # us[v].email
                     /\ us[u].employee_number # us[v].employee_number
    /\ \A c, d \in DOMAIN cs : c # d => cs[c].email # cs[d].email

\* C21: no two users share an email or an employee number and no two
\* clients share an email; a create or update that would make a duplicate
\* ends in an error and leaves the rows as they were, and the session is
\* left clean, so that the operations that follow on it are not refused.
C21_UniqueColumns ==
    [][/\ UniqueRows(users', clients')
       /\ last'.op \in {"create_user", "update_user", "create_client", "update_client"}
            => /\ last'.result # OK => (users' = users /\ clients' = clients)
               /\ session' = Clean]_vars

\* update_user was refused the email or the employee number of another
\* user, while two clients are stored.
C21_Witness ==
    /\ last.op = "update_user"
    /\ last.result = IntegrityError
    /\ Cardinality(DOMAIN users) = 2
    /\ Cardinality(DOMAIN clients) = 2
    /\ session = Clean

\* The create, update, delete, assign and reassign methods of the services.
ServiceOps == DOMAIN handler

\* C22: a service operation that ends in an error leaves the four tables as
\* they were, and leaves nothing of what it did pending in the session for
\* a later commit to write.
C22_ErrorChangesNothing ==
    [][(last'.op \in ServiceOps /\ last'.result # OK)
        => /\ UNCHANGED <<users, clients, contracts, events>>
           /\ session' = Clean]_vars

\* C23: an operation whose write was committed is reported as a success,
\* whether the telemetry call that follows the commit raises or not.
C23_TelemetryNeverFails ==
    [][(/\ last'.op \in {"create_client", "create_contract"}
        /\ (clients' # clients \/ contracts' # contracts))
        => last'.result = OK]_vars

\* C24: a contract that is signed stays signed through every update_contract.
C24_SignedStaysSigned ==
    [][last'.op = "update_contract"
        => \A c \in DOMAIN contracts :
                contracts[c].is_signed => contracts'[c].is_signed]_vars

\* C25: an event is created with no support contact, and once it has one no
\* assign_event and no update_event leaves it with none.
C25_AssignedStaysAssigned ==
    [][/\ (last'.op = "create_event" /\ last'.result = OK)
            => events'[last'.id].support_contact_id = NULL
       /\ last'.op \in {"assign_event", "update_event"}
            => \A e \in DOMAIN events :
                    events[e].support_contact_id # NULL
                        => events'[e].support_contact_id # NULL]_vars

\* C26: every stored event ends after it starts and has at least one
\* attendee, whatever create_event and update_event calls succeeded.
C26_EventDatesAndAttendees ==
    \A e \in DOMAIN events :
        /\ events[e].event_end_date > events[e].event_start_date
        /\ events[e].attendees >= 1

\* update_event was given a start date alone, and stored it.
C26_Witness ==
    /\ last.op = "update_event"
    /\ last.result = OK
    /\ DOMAIN last.kwargs = {"event_start_date"}
    /\ events[last.id].event_start_date = last.kwargs.event_start_date
    /\ events[last.id].event_start_date = 2

\* C27: assign_event reports "assigned" for an event that had no support
\* contact before the call and "reassigned" for one that had.
C27_AssignedOrReassigned ==
    [][(last'.op = "EventController_assign_event" /\ last'.result = OK)
        => last'.action = IF last'.old_support_id = NULL
                          THEN "assigned" ELSE "reassigned"]_vars

\* C28, as stated: delete_user of a GESTION user succeeds only if more than
\* one GESTION user is left after the removal.
C28_MoreThanOneGestionLeft ==
    [][(/\ last'.op = "delete_user"
        /\ last'.result = OK
        /\ last'.department = GESTION)
        => GestionCount(users') > 1]_vars

\* C28, amended: delete_user of a GESTION user succeeds only if there was
\* more than one GESTION user before the removal, so that at least one is
\* left after it.
C28_AtLeastOneGestionLeft ==
    [][(/\ last'.op = "delete_user"
        /\ last'.result = OK
        /\ last'.department = GESTION)
        => /\ GestionCount(users) > 1
           /\ GestionCount(users') >= 1]_vars

\* A GESTION user was deleted and exactly one GESTION user is left.
C28_Witness ==
    /\ last.op = "delete_user"
    /\ last.result = OK
    /\ last.department = GESTION
    /\ GestionCount(users) = 1

\* C29: a COMMERCIAL actor creates an event for a contract only while being
\* the sales contact of the contract's client, also after the client went
\* to another commercial.
C29_EventByClientOwner ==
    [][(/\ last'.op = "EventController_create_event"
        /\ last'.result = OK
        /\ last'.actor.department = COMMERCIAL)
        => clients[contracts[last'.id].client_id].sales_contact_id
                = last'.actor.id]_vars

\* C30: a write of the user management menu, which requires GESTION, is
\* done only for an actor whose stored row exists and is of GESTION when
\* the write is done, whatever the actor was at the login.
C30_AuthorizedByStoredState ==
    [][(/\ last'.op \in {"UserController_create_user", "UserController_update_user",
                         "UserController_delete_user"}
        /\ last'.result = OK)
        => /\ last'.actor.id \in DOMAIN users
           /\ users[last'.actor.id].department = GESTION]_vars
====
